---- MODULE Spec2Model ----
(***************************************************************************)
(* A model of bainbridge-now: the Event record and its SQLite store        *)
(* (event.py), the digest loop and the ingestion coordinator               *)
(* (bainbridgenow.py) and the source adapters the coordinator calls        *)
(* (scraper_generic.py, scraper_custom.py).                                *)
(*                                                                         *)
(* Spec       : the store's interface, write_to_db and                     *)
(*              get_events_by_date_and_type, called with bounded inputs.   *)
(* SpecDigest : rows are written, then the entry program runs: the digest  *)
(*              loop at the top level of bainbridgenow.py.                 *)
(* SpecIngest : rows are written and scrape_events runs, source by source, *)
(*              each adapter answering with a fault or a few items.        *)
(***************************************************************************)
EXTENDS Integers, Sequences, FiniteSets, TLC

VARIABLES
    db,           \* rows of the events table, in rowid order
    tableExists,  \* whether CREATE TABLE has run on the database file
    written,      \* history: the Event objects whose INSERT was committed
    ret,          \* what the last call of the store's interface returned
    pc,           \* where the entry program stands
    now,          \* the wall clock, as datetime.now() reads it
    ticks,        \* how often the clock advanced during the run
    event_types,  \* the digest loop's list of categories
    idx,          \* the digest loop's position in event_types
    wstart,       \* the window start of the query being prepared
    out_html,     \* the document built so far
    queried,      \* history: the query of each iteration and its answer
    output_file,  \* output.html
    ipc,          \* where scrape_events stands
    scraped_events, \* scrape_events' list of the events to write
    invoked,      \* history: the sources whose adapter was called
    failed,       \* history: the sources that answered with a fault
    feeds,        \* history: how many sources served a non-empty feed
    startless,    \* history: the sources that served an item with no start
    served,       \* history: the dated items the sources served
    passed,       \* history: the events write_to_db was called on
    first_run     \* history: the run of the entry program that ended before

storeVars == <<db, tableExists, written, ret>>

digestVars == <<pc, now, ticks, event_types, idx, wstart, out_html, queried, output_file,
                first_run>>

ingestVars == <<ipc, scraped_events, invoked, failed, feeds, startless, served, passed>>

vars == <<db, tableExists, written, ret,
          pc, now, ticks, event_types, idx, wstart, out_html, queried, output_file,
          ipc, scraped_events, invoked, failed, feeds, startless, served, passed,
          first_run>>

----------------------------------------------------------------------------
(* Bounds of the model *)

\* at most this many rows are inserted
MaxRows == 2

\* the clock advances at most this often while the entry program runs
MaxTicks == 1

\* the entry program starts on one of the days 0..MaxToday; day 0 is a Friday
MaxToday == 6

\* at most this many sources answer with a fault in one ingestion run
MaxFaults == 1

\* at most this many sources serve a non-empty feed in one ingestion run
MaxFeeds == 1

----------------------------------------------------------------------------
(* datetime values and their ISO-8601 text                                 *)
(*                                                                         *)
(* A datetime is a day number d, an hour h and, when it is timezone-aware, *)
(* a UTC offset in hours.  isoformat() gives zero-padded fixed-width       *)
(* fields, so one text position per field keeps the byte order of the      *)
(* real text: YYYY-MM-DD is position 1, HH:MM:SS position 2, and an aware  *)
(* value appends the sign character and the offset digits.                 *)

None == "None"      \* Python's None in a slot that otherwise holds a string

NoneDT == [kind |-> "none", d |-> 0, h |-> 0, off |-> 0]

DT(d, h) == [kind |-> "naive", d |-> d, h |-> h, off |-> 0]

DTz(d, h, off) == [kind |-> "aware", d |-> d, h |-> h, off |-> off]

\* SQL NULL in a TEXT column that otherwise holds ISO text
NULL == << >>

Abs(n) == IF n < 0 THEN -n ELSE n

\* the instant of a datetime, in hours; a naive one counts as wall-clock hours
Instant(dt) == dt.d * 24 + dt.h - dt.off

\* the objects write_to_db can call .isoformat() on
has_isoformat(dt) == dt.kind \in {"naive", "aware"}

\* datetime.isoformat(): '+' is byte 43 and '-' is byte 45
isoformat(dt) ==
    IF dt.kind = "naive"
    THEN <<dt.d, dt.h>>
    ELSE <<dt.d, dt.h, IF dt.off >= 0 THEN 43 ELSE 45, Abs(dt.off)>>

\* datetime.fromisoformat()
fromisoformat(text) ==
    IF Len(text) = 2
    THEN [kind |-> "naive", d |-> text[1], h |-> text[2], off |-> 0]
    ELSE [kind |-> "aware", d |-> text[1], h |-> text[2],
          off |-> IF text[3] = 43 THEN text[4] ELSE -text[4]]

\* SQLite's BINARY collation on TEXT: memcmp, then the shorter text first
TextLT(a, b) ==
    \/ \E i \in 1..Len(a) :
          /\ i <= Len(b)
          /\ a[i] < b[i]
          /\ \A j \in 1..(i - 1) : a[j] = b[j]
    \/ /\ Len(a) < Len(b)
       /\ \A j \in 1..Len(a) : a[j] = b[j]

TextLE(a, b) == a = b \/ TextLT(a, b)

----------------------------------------------------------------------------
(* Event (event.py) *)

\* Event.__init__: stores its arguments, validates nothing
Event(start_datetime, name, event_type, zip_code, end_datetime, url, promoted, notes) ==
    [start_datetime |-> start_datetime,
     end_datetime   |-> end_datetime,
     name           |-> name,
     url            |-> url,
     event_type     |-> event_type,
     zip_code       |-> zip_code,
     promoted       |-> promoted,
     notes          |-> notes]

\* InsertParams with the end timestamp never written
InsertParamsNoEnd(self) ==
    [name           |-> self.name,
     start_datetime |-> isoformat(self.start_datetime),
     end_datetime   |-> NULL,
     url            |-> self.url,
     event_type     |-> self.event_type,
     zip_code       |-> self.zip_code,
     promoted       |-> IF self.promoted THEN 1 ELSE 0,
     notes          |-> self.notes]

\* the INSERT parameters with the category left out
InsertParamsNoType(self) ==
    [name           |-> self.name,
     start_datetime |-> isoformat(self.start_datetime),
     end_datetime   |-> IF self.end_datetime.kind # "none"
                        THEN isoformat(self.end_datetime)
                        ELSE NULL,
     url            |-> self.url,
     event_type     |-> "",
     zip_code       |-> self.zip_code,
     promoted       |-> IF self.promoted THEN 1 ELSE 0,
     notes          |-> self.notes]

\* the parameter tuple of the INSERT statement
InsertParams(self) ==
    [name           |-> self.name,
     start_datetime |-> isoformat(self.start_datetime),
     end_datetime   |-> IF self.end_datetime.kind # "none"
                        THEN isoformat(self.end_datetime)
                        ELSE NULL,
     url            |-> self.url,
     event_type     |-> self.event_type,
     zip_code       |-> self.zip_code,
     promoted       |-> IF self.promoted THEN 1 ELSE 0,
     notes          |-> self.notes]

\* where a call of the sqlite3 library may raise sqlite3.Error
WriteFaults == {"none", "connect", "create", "insert"}

\* write_to_db as an upsert: an event already stored is not stored again
write_to_db_upsert(self, fault, rows, exists) ==
    IF fault # "none" \/ ~has_isoformat(self.start_datetime)
    THEN [rows |-> rows, exists |-> exists, raised |-> FALSE, inserted |-> FALSE]
    ELSE IF \E i \in 1..Len(rows) : rows[i] = InsertParams(self)
    THEN [rows |-> rows, exists |-> TRUE, raised |-> FALSE, inserted |-> TRUE]
    ELSE [rows |-> Append(rows, InsertParams(self)), exists |-> TRUE,
          raised |-> FALSE, inserted |-> TRUE]

\* write_to_db on a connection that commits each statement by itself: a
\* failure met after the INSERT ran leaves the row in the table
write_to_db_autocommit(self, fault, rows, exists) ==
    IF fault \in {"connect", "create"} \/ ~has_isoformat(self.start_datetime)
    THEN [rows |-> rows, exists |-> exists, raised |-> fault = "connect",
          inserted |-> FALSE]
    ELSE [rows |-> Append(rows, InsertParams(self)), exists |-> TRUE,
          raised |-> FALSE, inserted |-> fault = "none"]

\* Event.write_to_db on a database holding `rows`
write_to_db(self, fault, rows, exists) ==
    IF fault = "connect"
    THEN \* sqlite3.connect raised: conn was never bound, and `if conn` in the
         \* finally block raises UnboundLocalError out of write_to_db
         [rows |-> rows, exists |-> exists, raised |-> TRUE, inserted |-> FALSE]
    ELSE IF fault = "create"
    THEN [rows |-> rows, exists |-> exists, raised |-> FALSE, inserted |-> FALSE]
    ELSE IF ~has_isoformat(self.start_datetime)
    THEN \* AttributeError while the parameter tuple is built, after CREATE TABLE
         [rows |-> rows, exists |-> TRUE, raised |-> FALSE, inserted |-> FALSE]
    ELSE IF fault = "insert"
    THEN \* caught; close() without commit leaves no row
         [rows |-> rows, exists |-> TRUE, raised |-> FALSE, inserted |-> FALSE]
    ELSE [rows |-> Append(rows, InsertParams(self)), exists |-> TRUE,
          raised |-> FALSE, inserted |-> TRUE]

\* what a call of write_to_db evaluates to: the function has no return
\* statement, so every path that returns gives None
write_to_db_value(self, fault, rows, exists) == None

----------------------------------------------------------------------------
(* get_events_by_date_and_type (event.py) *)

\* the WHERE clause with the end bound excluded
WhereEndExclusive(row, lo, hi, event_type) ==
    /\ TextLE(lo, row.start_datetime)
    /\ TextLT(row.start_datetime, hi)
    /\ (event_type \notin {None, ""} => row.event_type = event_type)

\* the WHERE clause with no condition on the type
WhereAnyType(row, lo, hi, event_type) ==
    /\ TextLE(lo, row.start_datetime)
    /\ TextLE(row.start_datetime, hi)

\* the WHERE clause: bounds compared as text, the type only when it is truthy
Where(row, lo, hi, event_type) ==
    /\ TextLE(lo, row.start_datetime)
    /\ TextLE(row.start_datetime, hi)
    /\ (event_type \notin {None, ""} => row.event_type = event_type)

RECURSIVE SelectWhere(_, _, _, _)
SelectWhere(rows, lo, hi, event_type) ==
    IF rows = << >>
    THEN << >>
    ELSE IF Where(Head(rows), lo, hi, event_type)
         THEN <<Head(rows)>> \o SelectWhere(Tail(rows), lo, hi, event_type)
         ELSE SelectWhere(Tail(rows), lo, hi, event_type)

\* the rows left in rowid order, as without ORDER BY
InsertUnordered(row, sorted) == Append(sorted, row)

\* one row placed into rows already ordered by start_datetime, after its equals
RECURSIVE InsertOrdered(_, _)
InsertOrdered(row, sorted) ==
    IF sorted = << >>
    THEN <<row>>
    ELSE IF TextLT(row.start_datetime, Head(sorted).start_datetime)
         THEN <<row>> \o sorted
         ELSE <<Head(sorted)>> \o InsertOrdered(row, Tail(sorted))

\* ORDER BY start_datetime; rows with equal keys stay in rowid order
RECURSIVE OrderBy(_)
OrderBy(rows) ==
    IF rows = << >>
    THEN << >>
    ELSE InsertOrdered(rows[Len(rows)], OrderBy(SubSeq(rows, 1, Len(rows) - 1)))

\* a fetched row turned back into an Event
RowToEvent(row) ==
    Event(fromisoformat(row.start_datetime),
          row.name,
          row.event_type,
          row.zip_code,
          IF row.end_datetime # NULL THEN fromisoformat(row.end_datetime) ELSE NoneDT,
          row.url,
          row.promoted # 0,
          row.notes)

RECURSIVE RowsToEvents(_)
RowsToEvents(rows) ==
    IF rows = << >>
    THEN << >>
    ELSE <<RowToEvent(Head(rows))>> \o RowsToEvents(Tail(rows))

\* sqlite3.connect may raise; cursor.execute raises when the table is missing
QueryFaults == {"none", "connect"}

\* the query answered from the rows even when the connection failed
get_events_despite_fault(start_date, end_date, event_type, fault, rows, exists) ==
    IF ~exists
    THEN << >>
    ELSE RowsToEvents(OrderBy(SelectWhere(rows, isoformat(start_date),
                                          isoformat(end_date), event_type)))

get_events_by_date_and_type(start_date, end_date, event_type, fault, rows, exists) ==
    IF fault = "connect" \/ ~exists
    THEN << >>      \* sqlite3.Error caught: the empty list is returned
    ELSE RowsToEvents(OrderBy(SelectWhere(rows, isoformat(start_date),
                                          isoformat(end_date), event_type)))

----------------------------------------------------------------------------
(* The finally clauses of the store's functions (event.py) *)

\* write_to_db binds conn first inside the try: when connect raised, the
\* name is unbound and `if conn:` raises UnboundLocalError
release_write(fault) ==
    IF fault = "connect"
    THEN [conn |-> "unbound", raised |-> TRUE]
    ELSE [conn |-> "closed", raised |-> FALSE]

\* get_events_by_date_and_type sets conn = None before the try
release_query(fault) ==
    IF fault = "connect"
    THEN [conn |-> "none", raised |-> FALSE]
    ELSE [conn |-> "closed", raised |-> FALSE]

----------------------------------------------------------------------------
(* Event.html (event.py) *)

\* datetime.astimezone(tz), for a zone `off` hours from UTC
astimezone(dt, off) ==
    LET total == dt.d * 24 + dt.h - dt.off + off IN
    [kind |-> "aware", d |-> total \div 24, h |-> total % 24, off |-> off]

\* pytz's localize(): the wall-clock reading is kept, the zone attached
localize(dt, off) == [kind |-> "aware", d |-> dt.d, h |-> dt.h, off |-> off]

\* a timestamp as America/New_York shows it (UTC-4, daylight time)
ToNewYork(dt) == IF dt.kind = "naive" THEN localize(dt, -4) ELSE astimezone(dt, -4)

NoFrag == [name |-> "", time_range |-> << >>, zip_code |-> "", notes |-> "", url |-> ""]

\* Event.html(): what the fragment prints
html(self) ==
    LET start_time == ToNewYork(self.start_datetime) IN
    [name       |-> self.name,
     time_range |-> IF self.end_datetime.kind # "none"
                    THEN <<start_time.d, start_time.h, ToNewYork(self.end_datetime).h>>
                    ELSE <<start_time.d, start_time.h>>,
     zip_code   |-> self.zip_code,
     notes      |-> self.notes,
     url        |-> self.url]

----------------------------------------------------------------------------
(* get_upcoming_friday, get_unique_event_types (bainbridgenow.py) *)

\* datetime.weekday(): Monday is 0; day 0 of the model is a Friday
weekday(dt) == (dt.d + 4) % 7

\* dt + timedelta(days=n)
plus_days(dt, n) == [dt EXCEPT !.d = @ + n]

\* get_upcoming_friday with the rule its comment states: on a Friday, the
\* Friday a week later
get_upcoming_friday_next_week(today) ==
    LET d0 == (4 - weekday(today) + 7) % 7
        days_until_friday == IF d0 = 0 THEN 7 ELSE d0
    IN  [plus_days(today, days_until_friday) EXCEPT !.h = 0]

get_upcoming_friday(today) ==
    LET d0 == (4 - weekday(today) + 7) % 7
        days_until_friday == IF d0 = 0 THEN 0 ELSE d0
    IN  [plus_days(today, days_until_friday) EXCEPT !.h = 0]

\* SELECT event_type: the value of every row, in the order of the scan
RECURSIVE SelectEveryRow(_, _)
SelectEveryRow(rows, seen) ==
    IF rows = << >>
    THEN << >>
    ELSE <<Head(rows).event_type>> \o SelectEveryRow(Tail(rows), seen)

\* SELECT DISTINCT event_type: each value once, in the order of the scan
RECURSIVE Distinct(_, _)
Distinct(rows, seen) ==
    IF rows = << >>
    THEN << >>
    ELSE IF Head(rows).event_type \in seen
         THEN Distinct(Tail(rows), seen)
         ELSE <<Head(rows).event_type>>
                  \o Distinct(Tail(rows), seen \cup {Head(rows).event_type})

get_unique_event_types(fault, rows, exists) ==
    IF fault = "connect" \/ ~exists
    THEN << >>      \* sqlite3.Error caught: the empty list is returned
    ELSE Distinct(rows, {})

\* str.capitalize()
capitalize(s) ==
    CASE s = "SCHOOL" -> "School"
      [] s = "PARK"   -> "Park"
      [] OTHER        -> s

----------------------------------------------------------------------------
(* The source adapters (scraper_generic.py, scraper_custom.py) *)

\* what a source answered: a fault ("http": transport error or non-2xx
\* status; "parse": the content lacks the expected structure) or its items
Response(fault, items) == [fault |-> fault, items |-> items]

\* an item of a feed or page: its start, if it has one, and its title
Item(start, name) == [start |-> start, name |-> name]

\* datetime.min: year 1, before every day of the model
datetime_min == DT(-1, 0)

\* the parameters Event.__init__ declares
EventInitParams ==
    {"start_datetime", "name", "event_type", "zip_code",
     "end_datetime", "url", "promoted", "notes"}

NoEvent == Event(NoneDT, "", "", "", NoneDT, None, FALSE, "")

\* a keyword argument, or the default of the parameter
Get(kw, key, default) == IF key \in DOMAIN kw THEN kw[key] ELSE default

\* a constructor that accepts keywords it does not declare
EventInitAnyKeyword(kw) ==
    [raised |-> FALSE,
     event  |-> Event(kw.start_datetime, kw.name, kw.event_type, kw.zip_code,
                      Get(kw, "end_datetime", NoneDT), Get(kw, "url", None),
                      Get(kw, "promoted", FALSE), Get(kw, "notes", ""))]

\* Event(**kw): TypeError on a keyword that is not a parameter
EventInit(kw) ==
    IF DOMAIN kw \subseteq EventInitParams
    THEN [raised |-> FALSE,
          event  |-> Event(kw.start_datetime, kw.name, kw.event_type, kw.zip_code,
                           Get(kw, "end_datetime", NoneDT), Get(kw, "url", None),
                           Get(kw, "promoted", FALSE), Get(kw, "notes", ""))]
    ELSE [raised |-> TRUE, event |-> NoEvent]

\* what an adapter hands back: a list, or an exception that left it
Returned(events) == [raised |-> FALSE, events |-> events]

Raised == [raised |-> TRUE, events |-> << >>]

\* the VEVENT loop of scrape_ics: any exception ends the walk in the outer
\* handler, and the events appended so far are returned
RECURSIVE IcsWalk(_, _)
IcsWalk(items, events) ==
    IF items = << >>
    THEN events
    ELSE IF Head(items).start.kind = "none"
         THEN events        \* component.get("dtstart") is None
         ELSE LET r == EventInit([start_datetime |-> Head(items).start,
                                  end_datetime   |-> NoneDT,
                                  name           |-> Head(items).name,
                                  url            |-> None,
                                  event_type     |-> "UNKNOWN",
                                  zip_code       |-> "N/A",
                                  location       |-> ""])
              IN  IF r.raised
                  THEN events
                  ELSE IcsWalk(Tail(items), Append(events, r.event))

scrape_ics(resp) ==
    IF resp.fault # "none" THEN << >> ELSE IcsWalk(resp.items, << >>)

\* the item loop of scrape_json: an exception skips the item
RECURSIVE JsonItems(_)
JsonItems(items) ==
    IF items = << >>
    THEN << >>
    ELSE LET r == EventInit([start_datetime |-> Head(items).start,
                             end_datetime   |-> NoneDT,
                             name           |-> Head(items).name,
                             url            |-> None,
                             event_type     |-> "COMMUNITY",
                             zip_code       |-> "N/A",
                             location       |-> ""])
         IN  (IF Head(items).start.kind = "none" \/ r.raised
              THEN << >>
              ELSE <<r.event>>) \o JsonItems(Tail(items))

scrape_json(resp) ==
    IF resp.fault # "none" THEN << >> ELSE JsonItems(resp.items)

\* the article links of the listing page, none when the fetch failed
get_geauga_maple_leaf_current_events_url(resp) ==
    IF resp.fault # "none" THEN << >> ELSE resp.items

\* fetch_event_block and the model call raise; else the answer's "events"
extract_events_llm(resp) ==
    [raised |-> resp.fault # "none", events_json |-> resp.items]

\* an item without start_datetime gets datetime.min; an exception skips
\* the item
RECURSIVE convert_llm_json_to_events(_, _)
convert_llm_json_to_events(json_data, page_url) ==
    IF json_data = << >>
    THEN << >>
    ELSE LET item == Head(json_data)
             r == EventInit([start_datetime |-> IF item.start.kind # "none"
                                                THEN item.start
                                                ELSE datetime_min,
                             end_datetime   |-> NoneDT,
                             name           |-> item.name,
                             url            |-> page_url,
                             event_type     |-> "COMMUNITY",
                             zip_code       |-> "N/A",
                             location       |-> None])
         IN  (IF r.raised THEN << >> ELSE <<r.event>>)
                 \o convert_llm_json_to_events(Tail(json_data), page_url)

\* parse_datetime gives the ISO text of the date, a str; None when the
\* paragraph does not parse
parse_datetime(dt) == IF dt.kind = "none" THEN NoneDT ELSE [dt EXCEPT !.kind = "str"]

\* the heading loop of parse_bainbridge_events: nothing catches here
RECURSIVE HistoricalWalk(_, _, _)
HistoricalWalk(items, url, events) ==
    IF items = << >>
    THEN Returned(events)
    ELSE LET r == EventInit([start_datetime |-> parse_datetime(Head(items).start),
                             name           |-> Head(items).name,
                             url            |-> url,
                             event_type     |-> "COMMUNITY",
                             zip_code       |-> "44023",
                             location       |-> "Bainbridge Library Community Room"])
         IN  IF r.raised
             THEN Raised
             ELSE HistoricalWalk(Tail(items), url, Append(events, r.event))

\* raise_for_status() and the missing container raise
parse_bainbridge_events(resp, url) ==
    IF resp.fault # "none" THEN Raised ELSE HistoricalWalk(resp.items, url, << >>)

\* the row loop of scrape_park_events: a row without a start is skipped
RECURSIVE ParkRows(_, _)
ParkRows(rows, events) ==
    IF rows = << >>
    THEN Returned(events)
    ELSE IF Head(rows).start.kind = "none"
         THEN ParkRows(Tail(rows), events)
         ELSE LET r == EventInit([start_datetime |-> Head(rows).start,
                                  name           |-> Head(rows).name,
                                  url            |-> None,
                                  event_type     |-> "PARK",
                                  zip_code       |-> "The West Woods",
                                  notes          |-> "$5",
                                  location       |-> "The West Woods"])
              IN  IF r.raised
                  THEN Raised
                  ELSE ParkRows(Tail(rows), Append(events, r.event))

\* raise_for_status() raises; a page without the table gives no events
scrape_park_events(resp) ==
    IF resp.fault = "http" THEN Raised
    ELSE IF resp.fault = "parse" THEN Returned(<< >>)
    ELSE ParkRows(resp.items, << >>)

\* the three pages, one after the other
scrape_park_pages(r1, r2, r3) ==
    LET p1 == scrape_park_events(r1)
        p2 == scrape_park_events(r2)
        p3 == scrape_park_events(r3)
    IN  IF p1.raised \/ p2.raised \/ p3.raised
        THEN Raised
        ELSE Returned(p1.events \o p2.events \o p3.events)

\* the block loop of scrape_merchat_assoc_events: a block without date or
\* time keeps start None; the start is localized to America/New_York
RECURSIVE MerchantBlocks(_, _)
MerchantBlocks(blocks, events) ==
    IF blocks = << >>
    THEN Returned(events)
    ELSE LET r == EventInit([start_datetime |-> IF Head(blocks).start.kind = "none"
                                                THEN NoneDT
                                                ELSE localize(Head(blocks).start, -4),
                             name           |-> Head(blocks).name,
                             url            |-> None,
                             event_type     |-> "COMMUNITY",
                             zip_code       |-> None,
                             notes          |-> "",
                             location       |-> None])
         IN  IF r.raised
             THEN Raised
             ELSE MerchantBlocks(Tail(blocks), Append(events, r.event))

\* raise_for_status() and strptime raise
scrape_merchat_assoc_events(resp) ==
    IF resp.fault # "none" THEN Raised ELSE MerchantBlocks(resp.items, << >>)

----------------------------------------------------------------------------
(* Inputs of the store's interface *)

EventTypes == {"SCHOOL", "PARK"}

\* start timestamps: naive ones, and aware ones in US Eastern daylight time
\* (UTC-4) and in UTC
StartTimes == {DT(0, 0), DT(0, 1), DTz(0, 0, -4), DTz(0, 1, 0)}

\* an Event with every optional field set, and one with none
FullEvent(start, type) ==
    Event(start, "Fall Theater Night", type, "44023", DT(1, 1), "https://x", TRUE, "$5")

BareEvent(start, type) ==
    Event(start, "Fall Theater Night", type, "44023", NoneDT, None, FALSE, "")

Events ==
    {FullEvent(s, t) : s \in StartTimes \cup {NoneDT}, t \in EventTypes}
        \cup {BareEvent(s, t) : s \in StartTimes \cup {NoneDT}, t \in EventTypes}

\* the bounds of a query window
WindowTimes == {DT(0, 0), DT(0, 1), DTz(0, 1, 0), DTz(0, 1, -4)}

TypeArgs == {None, "", "PARK"}

NoQuery == [start |-> NoneDT, end |-> NoneDT, event_type |-> None]

NoRet == [op |-> "none", raised |-> FALSE, inserted |-> FALSE, fault |-> "none",
          conn |-> "none", release_raised |-> FALSE, value |-> None,
          q |-> NoQuery, events |-> << >>, types |-> << >>]

----------------------------------------------------------------------------
(* Spec: calls of the store's interface *)

NoFile == <<[tag |-> "nofile", type |-> "", frag |-> NoFrag]>>

\* no run of the entry program has ended yet
NoRun == [ran |-> FALSE, now |-> NoneDT, db |-> << >>, tableExists |-> FALSE,
          event_types |-> << >>, queried |-> << >>, out_html |-> << >>]

InitStore ==
    /\ db = << >>
    /\ tableExists = FALSE
    /\ written = << >>
    /\ ret = NoRet

InitIdle ==
    /\ pc = "idle"
    /\ now = DT(0, 0)
    /\ ticks = 0
    /\ event_types = << >>
    /\ idx = 1
    /\ wstart = NoneDT
    /\ out_html = << >>
    /\ queried = << >>
    /\ output_file = NoFile
    /\ first_run = NoRun

InitIngest ==
    /\ ipc = "idle"
    /\ scraped_events = << >>
    /\ invoked = {}
    /\ failed = {}
    /\ feeds = 0
    /\ startless = {}
    /\ served = {}
    /\ passed = << >>

Init == InitStore /\ InitIdle /\ InitIngest

\* event.write_to_db() for an event of E
InsertOf(E) ==
    \E self \in E, fault \in WriteFaults :
        LET r == write_to_db(self, fault, db, tableExists) IN
        /\ pc = "idle"
        /\ ipc \in {"idle", "done", "aborted"}
        /\ ret.op = "none"
        /\ Len(db) < MaxRows
        /\ db' = r.rows
        /\ tableExists' = r.exists
        /\ written' = IF r.inserted THEN Append(written, self) ELSE written
        /\ ret' = [NoRet EXCEPT !.op = "write", !.raised = r.raised,
                                !.inserted = r.inserted, !.fault = fault,
                                !.value = write_to_db_value(self, fault, db, tableExists),
                                !.conn = release_write(fault).conn,
                                !.release_raised = release_write(fault).raised,
                                !.events = <<self>>]
        /\ UNCHANGED <<digestVars, ingestVars>>

Insert == InsertOf(Events)

\* get_events_by_date_and_type(start_date, end_date, event_type)
Query ==
    \E s \in WindowTimes, e \in WindowTimes, ty \in TypeArgs, fault \in QueryFaults :
        /\ ret.op = "none"
        /\ ret' = [NoRet EXCEPT !.op = "query", !.fault = fault,
                                !.conn = release_query(fault).conn,
                                !.release_raised = release_query(fault).raised,
                                !.q = [start |-> s, end |-> e, event_type |-> ty],
                                !.events = get_events_by_date_and_type(
                                               s, e, ty, fault, db, tableExists)]
        /\ UNCHANGED <<db, tableExists, written>>
        /\ UNCHANGED <<digestVars, ingestVars>>

\* get_unique_event_types()
UniqueTypes ==
    \E fault \in QueryFaults :
        /\ ret.op = "none"
        /\ ret' = [NoRet EXCEPT !.op = "types", !.fault = fault,
                                !.conn = release_query(fault).conn,
                                !.release_raised = release_query(fault).raised,
                                !.types = get_unique_event_types(
                                              fault, db, tableExists)]
        /\ UNCHANGED <<db, tableExists, written>>
        /\ UNCHANGED <<digestVars, ingestVars>>

\* the caller is done with the value a call returned
Return ==
    /\ ret.op # "none"
    /\ ret' = NoRet
    /\ UNCHANGED <<db, tableExists, written>>
    /\ UNCHANGED <<digestVars, ingestVars>>

Next == Insert \/ Query \/ UniqueTypes \/ Return

Spec == Init /\ [][Next]_vars

----------------------------------------------------------------------------
(* SpecDigest: the entry program, bainbridgenow.py from line 174 on *)

\* the rows a digest is made of: naive starts at the window's edges.  With
\* the run starting on day 0 the window is [day 0, day 8]; on days 1..6 it
\* is [day 7, day 15].
DigestEvents ==
    {BareEvent(s, t) : s \in {DT(0, 0), DT(8, 0), DT(8, 1)}, t \in EventTypes}
        \cup {FullEvent(DT(8, 0), t) : t \in EventTypes}

InsertDigest == InsertOf(DigestEvents)

\* when the entry program can start
Nows == {DT(d, h) : d \in 0..MaxToday, h \in {0, 1}}

Token(tag, type, frag) == [tag |-> tag, type |-> type, frag |-> frag]

RECURSIVE Fragments(_)
Fragments(events) ==
    IF events = << >>
    THEN << >>
    ELSE <<Token("div", events[1].event_type, html(events[1]))>>
             \o Fragments(Tail(events))

\* a section whose heading is printed whatever the query returned
SectionAlways(event_type, upcoming) ==
    <<Token("h1", capitalize(event_type), NoFrag)>> \o Fragments(upcoming)

\* the heading of a category and a fragment per event, or nothing
Section(event_type, upcoming) ==
    IF upcoming # << >>
    THEN <<Token("h1", capitalize(event_type), NoFrag)>> \o Fragments(upcoming)
    ELSE << >>

\* out_html += "<html>": the document of the run before is kept in front
StartDocumentAppending(out) == out \o <<Token("html", "", NoFrag)>>

\* out_html = "<html>": whatever the name was bound to is dropped
StartDocument(out) == <<Token("html", "", NoFrag)>>

\* event_types = get_unique_event_types(); out_html = "<html>"
DigestStart ==
    \E n \in Nows, fault \in QueryFaults :
        LET types == get_unique_event_types(fault, db, tableExists) IN
        /\ pc = "idle"
        /\ ipc = "idle"
        /\ ret.op = "none"
        /\ now' = n
        /\ event_types' = types
        /\ out_html' = StartDocument(out_html)
        /\ idx' = 1
        /\ pc' = IF types = << >> THEN "write" ELSE "start"
        /\ UNCHANGED <<ticks, wstart, queried, output_file, first_run>>
        /\ UNCHANGED <<storeVars, ingestVars>>

\* the first argument of the query: get_upcoming_friday()
EvalStart ==
    /\ pc = "start"
    /\ wstart' = get_upcoming_friday(now)
    /\ pc' = "query"
    /\ UNCHANGED <<now, ticks, event_types, idx, out_html, queried, output_file,
                   first_run>>
    /\ UNCHANGED <<storeVars, ingestVars>>

\* the second argument, the query, and the section of the category
EvalQuery ==
    \E fault \in QueryFaults :
        LET end_date == plus_days(get_upcoming_friday(now), 8)
            event_type == event_types[idx]
            upcoming == get_events_by_date_and_type(wstart, end_date, event_type,
                                                    fault, db, tableExists)
        IN
        /\ pc = "query"
        /\ out_html' = out_html \o Section(event_type, upcoming)
        /\ queried' = Append(queried, [start |-> wstart, end |-> end_date,
                                       event_type |-> event_type, fault |-> fault,
                                       today |-> now, events |-> upcoming])
        /\ idx' = idx + 1
        /\ pc' = IF idx + 1 <= Len(event_types) THEN "start" ELSE "write"
        /\ UNCHANGED <<now, ticks, event_types, wstart, output_file, first_run>>
        /\ UNCHANGED <<storeVars, ingestVars>>

\* out_html += "</html>" and the write of output.html, whose IOError is caught
WriteFile ==
    \E ok \in BOOLEAN :
        /\ pc = "write"
        /\ out_html' = Append(out_html, Token("/html", "", NoFrag))
        /\ output_file' = IF ok THEN out_html' ELSE NoFile
        /\ pc' = "done"
        /\ UNCHANGED <<now, ticks, event_types, idx, wstart, queried, first_run>>
        /\ UNCHANGED <<storeVars, ingestVars>>

\* time passes while the program runs
Tick ==
    /\ pc \in {"start", "query"}
    /\ ticks < MaxTicks
    /\ \E n \in {DT(now.d, 1), DT(now.d + 1, 0)} :
          /\ Instant(n) > Instant(now)
          /\ now' = n
    /\ ticks' = ticks + 1
    /\ UNCHANGED <<pc, event_types, idx, wstart, out_html, queried, output_file,
                   first_run>>
    /\ UNCHANGED <<storeVars, ingestVars>>

NextDigest ==
    \/ InsertDigest
    \/ Return
    \/ DigestStart
    \/ EvalStart
    \/ EvalQuery
    \/ WriteFile
    \/ Tick

SpecDigest == Init /\ [][NextDigest]_vars

----------------------------------------------------------------------------
(* SpecRender: the entry program run twice, the clock standing still       *)
(* during a run; rows may be written before each run                       *)

RenderEvents ==
    {BareEvent(DT(0, 0), "PARK"), BareEvent(DT(8, 0), "PARK"),
     BareEvent(DT(8, 0), "SCHOOL")}

InsertRender == InsertOf(RenderEvents)

\* every read of the store succeeded in a run that found the rows `rows`,
\* the categories `types` and made the queries `qs`
CleanRun(rows, types, qs) ==
    /\ Len(qs) = Len(types)
    /\ \A k \in 1..Len(qs) : qs[k].fault = "none"
    /\ \A i \in 1..Len(rows) :
          \E k \in 1..Len(qs) : qs[k].event_type = rows[i].event_type

\* the process of a run that could read the store has ended; the program is
\* started once more.  The names of the module keep whatever they were bound
\* to until the program's own assignments bind them again.
Rerun ==
    /\ pc = "done"
    /\ ~first_run.ran
    /\ CleanRun(db, event_types, queried)
    /\ first_run' = [ran |-> TRUE, now |-> now, db |-> db,
                     tableExists |-> tableExists, event_types |-> event_types,
                     queried |-> queried, out_html |-> out_html]
    /\ queried' = << >>
    /\ pc' = "idle"
    /\ UNCHANGED <<now, ticks, event_types, idx, wstart, out_html, output_file>>
    /\ UNCHANGED <<storeVars, ingestVars>>

NextRender ==
    \/ InsertRender
    \/ Return
    \/ DigestStart
    \/ EvalStart
    \/ EvalQuery
    \/ WriteFile
    \/ Rerun

SpecRender == Init /\ [][NextRender]_vars

----------------------------------------------------------------------------
(* SpecIngest: scrape_events (bainbridgenow.py), source by source, with    *)
(* rows written before and after the run                                   *)

Sources ==
    {"township", "library", "schools", "sports", "cvcc",
     "mapleleaf", "historical", "parks", "merchant"}

Theater == Item(DT(0, 1), "Fall Theater Night")

Game == Item(DT(0, 0), "Kenston vs Chagrin")

Undated == Item(NoneDT, "Story Time")

\* what a source may answer
Responses ==
    {Response(f, << >>) : f \in {"http", "parse"}}
        \cup {Response("none", items) :
                 items \in {<< >>, <<Theater>>, <<Undated>>, <<Game, Undated>>}}

NoAnswer == Response("none", << >>)

\* the characters of the strings the model uses
Chars(s) ==
    CASE s = "Fall Theater Night" ->
             <<"F", "a", "l", "l", " ", "T", "h", "e", "a", "t", "e", "r", " ", "N", "i", "g", "h", "t">>
      [] s = "Kenston vs Chagrin" ->
             <<"K", "e", "n", "s", "t", "o", "n", " ", "v", "s", " ", "C", "h", "a", "g", "r", "i", "n">>
      [] s = "Story Time" ->
             <<"S", "t", "o", "r", "y", " ", "T", "i", "m", "e">>
      [] s = "theater" ->
             <<"t", "h", "e", "a", "t", "e", "r">>
      [] s = "play" ->
             <<"p", "l", "a", "y">>
      [] s = "concert" ->
             <<"c", "o", "n", "c", "e", "r", "t">>
      [] s = "silver bells" ->
             <<"s", "i", "l", "v", "e", "r", " ", "b", "e", "l", "l", "s">>
      [] s = "board of education" ->
             <<"b", "o", "a", "r", "d", " ", "o", "f", " ", "e", "d", "u", "c", "a", "t", "i", "o", "n">>
      [] s = "vs" ->
             <<"v", "s">>
      [] s = "Board Meeting" ->
             <<"B", "o", "a", "r", "d", " ", "M", "e", "e", "t", "i", "n", "g">>
      [] s = "Spring Concert" ->
             <<"S", "p", "r", "i", "n", "g", " ", "C", "o", "n", "c", "e", "r", "t">>
      [] OTHER -> << >>

UpperCase ==
    <<"A", "B", "C", "D", "E", "F", "G", "H", "I", "J", "K", "L", "M", "N", "O", "P", "Q", "R", "S", "T", "U", "V", "W", "X", "Y", "Z">>

LowerCase ==
    <<"a", "b", "c", "d", "e", "f", "g", "h", "i", "j", "k", "l", "m", "n", "o", "p", "q", "r", "s", "t", "u", "v", "w", "x", "y", "z">>

\* one character of str.lower()
ToLower(c) ==
    IF \E i \in 1..Len(UpperCase) : UpperCase[i] = c
    THEN LowerCase[CHOOSE i \in 1..Len(UpperCase) : UpperCase[i] = c]
    ELSE c

\* name.lower(), as characters
lower(name) == [i \in 1..Len(Chars(name)) |-> ToLower(Chars(name)[i])]

\* word in phrase: the word's characters stand somewhere in the phrase
IsSubstring(word, phrase) ==
    \E k \in 0..(Len(phrase) - Len(word)) :
        \A i \in 1..Len(word) : phrase[k + i] = word[i]

any_word_in(phrase, words) == \E word \in words : IsSubstring(Chars(word), phrase)

SchoolFilters == {"theater", "play", "concert", "silver bells", "board of education"}

\* for event in events: event.event_type = ...; event.zip_code = ...
RECURSIVE Override(_, _, _)
Override(events, event_type, zip_code) ==
    IF events = << >>
    THEN << >>
    ELSE <<[Head(events) EXCEPT !.event_type = event_type, !.zip_code = zip_code]>>
             \o Override(Tail(events), event_type, zip_code)

\* the events whose name holds one of the words
RECURSIVE Filter(_, _)
Filter(events, words) ==
    IF events = << >>
    THEN << >>
    ELSE (IF any_word_in(lower(Head(events).name), words)
          THEN <<Head(events)>>
          ELSE << >>) \o Filter(Tail(events), words)

RECURSIVE SetUrl(_, _)
SetUrl(events, url) ==
    IF events = << >>
    THEN << >>
    ELSE <<[Head(events) EXCEPT !.url = url]>> \o SetUrl(Tail(events), url)

\* the budget of faults and of non-empty feeds
Allowed(resp) ==
    /\ resp.fault # "none" => Cardinality(failed) < MaxFaults
    /\ resp.items # << >> => feeds < MaxFeeds

\* the adapter of a source was called: what it handed back joins the list,
\* or its exception leaves scrape_events
AdapterStep(source, faulty, items, result, next_pc) ==
    /\ invoked' = invoked \cup {source}
    /\ failed' = IF faulty THEN failed \cup {source} ELSE failed
    /\ feeds' = IF items # << >> THEN feeds + 1 ELSE feeds
    /\ startless' = IF \E k \in 1..Len(items) : items[k].start.kind = "none"
                    THEN startless \cup {source} ELSE startless
    /\ served' = served \cup {[source |-> source, name |-> items[k].name] :
                                k \in {j \in 1..Len(items) : items[j].start.kind # "none"}}
    /\ ipc' = IF result.raised THEN "aborted" ELSE next_pc
    /\ scraped_events' = IF result.raised
                         THEN scraped_events
                         ELSE scraped_events \o result.events
    /\ UNCHANGED passed
    /\ UNCHANGED <<storeVars, digestVars>>

ScrapeTownship ==
    \E resp \in Responses :
        /\ ipc = "idle"
        /\ pc = "idle"
        /\ ret.op = "none"
        /\ Allowed(resp)
        /\ AdapterStep("township", resp.fault # "none", resp.items,
                       Returned(Override(scrape_ics(resp), "GOVERNMENT", "44023")),
                       "library")

ScrapeLibrary ==
    \E resp \in Responses :
        /\ ipc = "library"
        /\ Allowed(resp)
        /\ AdapterStep("library", resp.fault # "none", resp.items,
                       Returned(Override(scrape_ics(resp), "LIBRARY", "44023")),
                       "schools")

ScrapeSchools ==
    \E resp \in Responses :
        /\ ipc = "schools"
        /\ Allowed(resp)
        /\ AdapterStep("schools", resp.fault # "none", resp.items,
                       Returned(Override(Filter(scrape_ics(resp), SchoolFilters),
                                         "SCHOOL", "44023")),
                       "sports")

ScrapeSports ==
    \E resp \in Responses :
        /\ ipc = "sports"
        /\ Allowed(resp)
        /\ AdapterStep("sports", resp.fault # "none", resp.items,
                       Returned(SetUrl(Override(Filter(scrape_ics(resp), {"vs"}),
                                                "SPORTS", "44023"),
                                       "https://www.kenstonathletics.com/")),
                       "cvcc")

ScrapeCVCC ==
    \E resp \in Responses :
        /\ ipc = "cvcc"
        /\ Allowed(resp)
        /\ AdapterStep("cvcc", resp.fault # "none", resp.items,
                       Returned(scrape_json(resp)), "mapleleaf")

\* the listing page, scraped_urls[0], the article and the conversion
ScrapeMapleLeaf ==
    \E listing \in {Response("http", << >>), Response("none", << >>),
                    Response("none", <<"article">>)},
       resp \in Responses :
        LET scraped_urls == get_geauga_maple_leaf_current_events_url(listing)
            answer == extract_events_llm(resp)
            result == IF scraped_urls = << >> \/ answer.raised
                      THEN Raised       \* IndexError, or what the fetch raised
                      ELSE Returned(convert_llm_json_to_events(
                                        answer.events_json, "https://maple"))
        IN
        /\ ipc = "mapleleaf"
        /\ scraped_urls = << >> => resp = NoAnswer
        /\ Allowed(resp)
        /\ listing.fault # "none" => Cardinality(failed) < MaxFaults
        /\ AdapterStep("mapleleaf",
                       listing.fault # "none" \/ resp.fault # "none",
                       resp.items, result, "historical")

ScrapeHistorical ==
    \E resp \in Responses :
        /\ ipc = "historical"
        /\ Allowed(resp)
        /\ AdapterStep("historical", resp.fault # "none", resp.items,
                       parse_bainbridge_events(resp, "https://historical"),
                       "parks")

ScrapeParks ==
    \E r1 \in Responses, r2 \in Responses, r3 \in Responses :
        /\ ipc = "parks"
        /\ Allowed(r1) /\ Allowed(r2) /\ Allowed(r3)
        /\ scrape_park_events(r1).raised => r2 = NoAnswer
        /\ (scrape_park_events(r1).raised \/ scrape_park_events(r2).raised)
              => r3 = NoAnswer
        /\ AdapterStep("parks",
                       r1.fault = "http" \/ r2.fault = "http" \/ r3.fault = "http",
                       r1.items \o r2.items \o r3.items,
                       scrape_park_pages(r1, r2, r3), "merchant")

ScrapeMerchant ==
    \E resp \in Responses :
        /\ ipc = "merchant"
        /\ Allowed(resp)
        /\ AdapterStep("merchant", resp.fault # "none", resp.items,
                       scrape_merchat_assoc_events(resp), "write")

\* for event in scraped_events: event.write_to_db(), from event k on
RECURSIVE WriteAll(_, _, _, _)
WriteAll(events, faults, k, acc) ==
    IF k > Len(events) \/ acc.raised
    THEN acc
    ELSE LET r == write_to_db(events[k], faults[k], acc.rows, acc.exists) IN
         WriteAll(events, faults, k + 1,
                  [rows     |-> r.rows,
                   exists   |-> r.exists,
                   raised   |-> r.raised,
                   passed   |-> Append(acc.passed, events[k]),
                   inserted |-> IF r.inserted
                                THEN Append(acc.inserted, events[k])
                                ELSE acc.inserted])

WriteLoop ==
    \E faults \in [1..Len(scraped_events) -> WriteFaults] :
        LET r == WriteAll(scraped_events, faults, 1,
                          [rows |-> db, exists |-> tableExists, raised |-> FALSE,
                           passed |-> << >>, inserted |-> << >>])
        IN
        /\ ipc = "write"
        /\ db' = r.rows
        /\ tableExists' = r.exists
        /\ written' = written \o r.inserted
        /\ passed' = r.passed
        /\ ipc' = IF r.raised THEN "aborted" ELSE "done"
        /\ UNCHANGED <<ret, scraped_events, invoked, failed, feeds, startless, served>>
        /\ UNCHANGED digestVars

\* rows that other runs and callers wrote
IngestEvents == {BareEvent(DT(0, 1), "PARK"), BareEvent(NoneDT, "PARK")}

InsertIngest == InsertOf(IngestEvents)

NextIngest ==
    \/ InsertIngest
    \/ Return
    \/ ScrapeTownship
    \/ ScrapeLibrary
    \/ ScrapeSchools
    \/ ScrapeSports
    \/ ScrapeCVCC
    \/ ScrapeMapleLeaf
    \/ ScrapeHistorical
    \/ ScrapeParks
    \/ ScrapeMerchant
    \/ WriteLoop

SpecIngest == Init /\ [][NextIngest]_vars

----------------------------------------------------------------------------
(* Notions the claims are stated in *)

Count(seq, v) == Cardinality({i \in 1..Len(seq) : seq[i] = v})

QueryDone == ret.op = "query" /\ ret.fault = "none"

\* an event_type was passed to the query
TypeGiven(q) == q.event_type \notin {None, ""}

----------------------------------------------------------------------------
(* C2 *)

\* C2 (as claimed): write_to_db never raises to its caller, whatever fails in
\* the persistence layer, the database that cannot be opened included.
C2_WriteNeverRaises == ret.op = "write" => ~ret.raised

----------------------------------------------------------------------------
(* C4 *)

\* a timestamp lies chronologically in the window; stated where Python can
\* compare the three values, that is where all are naive or all are aware
ChronoInWindow(dt, q) ==
    /\ Instant(q.start) <= Instant(dt)
    /\ Instant(dt) <= Instant(q.end)

SameKind(dt, q) == dt.kind = q.start.kind /\ dt.kind = q.end.kind

\* C4 (as claimed): a query returns exactly the stored events whose start lies
\* chronologically in [start, end] and, when a type is given, whose type equals
\* it.  Stated only for the stored events that can be compared with the bounds.
C4_Original ==
    QueryDone =>
        \A i \in 1..Len(written) :
            LET e == written[i] IN
            SameKind(e.start_datetime, ret.q) =>
                Count(ret.events, e) =
                    IF /\ ChronoInWindow(e.start_datetime, ret.q)
                       /\ (TypeGiven(ret.q) => e.event_type = ret.q.event_type)
                    THEN Count(written, e)
                    ELSE 0

\* the ISO text of a start lies in the window's ISO bounds, in byte order
TextInWindow(dt, q) ==
    /\ TextLE(isoformat(q.start), isoformat(dt))
    /\ TextLE(isoformat(dt), isoformat(q.end))

\* the example of the claim: A and B are in [09-05, 09-08], C is not
C4_ExampleRows ==
    <<InsertParams(BareEvent(DT(5, 18), "SCHOOL")),
      InsertParams(BareEvent(DT(6, 10), "SCHOOL")),
      InsertParams(BareEvent(DT(12, 9), "PARK"))>>

C4_Example ==
    /\ get_events_by_date_and_type(DT(5, 0), DT(8, 0), None, "none", C4_ExampleRows, TRUE)
           = <<BareEvent(DT(5, 18), "SCHOOL"), BareEvent(DT(6, 10), "SCHOOL")>>
    /\ get_events_by_date_and_type(DT(5, 0), DT(8, 0), "PARK", "none", C4_ExampleRows, TRUE)
           = << >>

\* C4 (amended): a query returns exactly the stored events whose ISO start text
\* lies in [start.isoformat(), end.isoformat()] in byte order, both bounds
\* included, and, when a non-empty type is given, whose type equals it; with
\* None or "" every type is returned.  For naive starts and naive bounds the
\* text range is the chronological range.
C4_Amended ==
    /\ C4_Example
    /\ QueryDone =>
        \A i \in 1..Len(written) :
            LET e == written[i] IN
            /\ Count(ret.events, e) =
                    IF /\ TextInWindow(e.start_datetime, ret.q)
                       /\ (TypeGiven(ret.q) => e.event_type = ret.q.event_type)
                    THEN Count(written, e)
                    ELSE 0
            /\ (e.start_datetime.kind = "naive" /\ SameKind(e.start_datetime, ret.q)) =>
                    (TextInWindow(e.start_datetime, ret.q)
                        <=> ChronoInWindow(e.start_datetime, ret.q))
    /\ QueryDone => \A j \in 1..Len(ret.events) : Count(written, ret.events[j]) > 0

\* a query with a type filter left one of two stored events out
C4_Witness ==
    /\ QueryDone
    /\ TypeGiven(ret.q)
    /\ Len(written) = 2
    /\ Len(ret.events) = 1

----------------------------------------------------------------------------
(* C5 *)

\* C5 (as claimed): the returned list is non-decreasing by start timestamp,
\* also when the store mixes naive and aware starts.  Stated only for the
\* pairs Python can compare: both naive, or both aware.
C5_Original ==
    QueryDone =>
        \A i, j \in 1..Len(ret.events) :
            (i < j /\ ret.events[i].start_datetime.kind = ret.events[j].start_datetime.kind)
                => Instant(ret.events[i].start_datetime)
                       <= Instant(ret.events[j].start_datetime)

\* C5 (amended): the returned list is non-decreasing by the ISO text of the
\* start, in byte order; that is chronological order among naive starts and
\* among aware starts of one UTC offset.
C5_Amended ==
    QueryDone =>
        \A i, j \in 1..Len(ret.events) :
            LET a == ret.events[i].start_datetime
                b == ret.events[j].start_datetime
            IN  i < j =>
                    /\ TextLE(isoformat(a), isoformat(b))
                    /\ (a.kind = b.kind /\ a.off = b.off) => Instant(a) <= Instant(b)

\* a query returned two events in the order opposite to their insertion
C5_Witness ==
    /\ QueryDone
    /\ Len(ret.events) = 2
    /\ Len(written) = 2
    /\ ret.events[1] = written[2]
    /\ ret.events[1] # ret.events[2]

----------------------------------------------------------------------------
(* C6 *)

----------------------------------------------------------------------------
(* C7 *)

\* C7: the table is append-only: a step never changes or removes a row, a
\* write that succeeds adds exactly one row (a duplicate of a stored event
\* too), and nothing else adds one.
C7_AppendOnly ==
    [][/\ Len(db') >= Len(db)
       /\ SubSeq(db', 1, Len(db)) = db
       /\ Len(db') = Len(db) + (IF ret'.op = "write" /\ ret'.inserted THEN 1 ELSE 0)
       /\ (ret'.op = "write" /\ ret'.fault = "none"
             /\ has_isoformat(ret'.events[1].start_datetime)) => ret'.inserted]_vars

\* the same event is stored twice
C7_Witness ==
    /\ Len(db) = 2
    /\ db[1] = db[2]
    /\ written[1] = written[2]

Headings(t) ==
    {i \in 1..Len(out_html) : out_html[i].tag = "h1" /\ out_html[i].type = capitalize(t)}

\* the query the digest loop made for a category
QueriesOf(t) == {k \in 1..Len(queried) : queried[k].event_type = t}

\* a stored event of the category starts inside the window of query k
StoredInWindow(t, k) ==
    \E i \in 1..Len(written) :
        /\ written[i].event_type = t
        /\ Instant(queried[k].start) <= Instant(written[i].start_datetime)
        /\ Instant(written[i].start_datetime) <= Instant(queried[k].end)

\* every read of the store in this run succeeded
ReadsSucceeded ==
    /\ Len(queried) = Len(event_types)
    /\ \A k \in 1..Len(queried) : queried[k].fault = "none"
    /\ \A i \in 1..Len(written) : QueriesOf(written[i].event_type) # {}

----------------------------------------------------------------------------
(* C1 *)

\* scrape_events has ended, by its last line or by an exception
RunOver == ipc \in {"done", "aborted"}

\* C1: when a source answered with a fault, the run still calls the adapter
\* of every other source and hands every event of its list to write_to_db.
C1_FailureIsolated ==
    (RunOver /\ failed # {}) =>
        /\ Sources \ failed \subseteq invoked
        /\ passed = scraped_events

----------------------------------------------------------------------------
(* C3 *)

\* C3: no row of the events table has an absent or empty start_datetime or
\* the text of datetime.min, and no item served without a start is a row.
C3_NoStartlessRow ==
    \A i \in 1..Len(db) :
        /\ db[i].start_datetime # NULL
        /\ db[i].start_datetime # isoformat(datetime_min)
        /\ db[i].name # Undated.name
        /\ has_isoformat(written[i].start_datetime)

\* a run went to its end although the article served an item without a
\* start, and the store holds a row
C3_Witness ==
    /\ ipc = "done"
    /\ "mapleleaf" \in startless
    /\ Len(db) > 0

----------------------------------------------------------------------------
(* C11 *)

\* a row the run wrote for a School item of that name
SchoolRow(name) ==
    \E i \in 1..Len(db) : db[i].name = name /\ db[i].event_type = "SCHOOL"

\* C11: after a run that went to its end, a dated item the Schools feed
\* served is a SCHOOL row of the store if and only if its name, lowercased,
\* holds one of the keywords as a substring.
C11_KeywordFilter ==
    ipc = "done" =>
        \A x \in served :
            x.source = "schools" =>
                (SchoolRow(x.name) <=> any_word_in(lower(x.name), SchoolFilters))

----------------------------------------------------------------------------
(* C12 *)

\* C12: the digest phase of the entry program runs only after scrape_events
\* ran to its end in the same run.  (The call of scrape_events at the top
\* level is commented out, so the entry program starts with the digest.)
C12_IngestionBeforeDigest == pc # "idle" => ipc = "done"

----------------------------------------------------------------------------
(* C13 *)

\* a row the run wrote for an item of that name with the category the
\* coordinator gives the source
SourceRow(name, event_type) ==
    \E i \in 1..Len(db) : db[i].name = name /\ db[i].event_type = event_type

\* C13: sources are handled one at a time: once the adapter of the next
\* source has been called, every dated item the Township feed (and likewise
\* the Library feed) served is a row of the store.
C13_OneSourceAtATime ==
    \A x \in served :
        /\ (x.source = "township" /\ "library" \in invoked)
               => SourceRow(x.name, "GOVERNMENT")
        /\ (x.source = "library" /\ "schools" \in invoked)
               => SourceRow(x.name, "LIBRARY")

----------------------------------------------------------------------------
(* C14 *)

\* C14: when write_to_db or get_events_by_date_and_type has finished, the
\* connection it opened is closed (or none was opened), and its finally
\* clause did not raise.
C14_ConnectionsReleased ==
    ret.op # "none" =>
        /\ ret.conn \in {"closed", "none"}
        /\ ~ret.release_raised

----------------------------------------------------------------------------
(* C16 *)

----------------------------------------------------------------------------
(* C17 *)

\* scrape_events was left by an exception before its write loop handed any
\* event to write_to_db: an adapter raised
AdapterRaised == ipc = "aborted" /\ passed = << >>

\* C17: no adapter raises to the coordinator; a source whose fetch failed
\* contributes an empty list and the run goes on.
C17_AdaptersNeverRaise == ~AdapterRaised

----------------------------------------------------------------------------
(* C18 *)

\* what write_to_db returns after a successful insert
ValueOfSuccess == write_to_db_value(BareEvent(DT(0, 0), "PARK"), "none", << >>, FALSE)

\* C18: the value write_to_db returns tells a failed insert from a
\* successful one: a call that returned without inserting gave a value
\* other than the value of a successful call.
C18_WriteReportsOutcome ==
    (ret.op = "write" /\ ~ret.raised /\ ~ret.inserted) => ret.value # ValueOfSuccess

----------------------------------------------------------------------------
(* C19 *)

\* C19: in one digest run every category's query uses one window: it
\* starts at midnight of the first Friday on or after the day of the query,
\* the same for every category, it ends exactly 8 days after its start, and
\* a stored event of the category that starts at the window start is in the
\* answer.
C19_OneWindow ==
    \A k \in 1..Len(queried) :
        LET q == queried[k] IN
        /\ q.start = queried[1].start
        /\ q.end = plus_days(q.start, 8)
        /\ q.start.h = 0
        /\ q.start.d % 7 = 0
        /\ q.start.d - q.today.d \in 0..6
        /\ q.fault = "none" =>
              \A i \in 1..Len(written) :
                  (written[i].event_type = q.event_type
                       /\ written[i].start_datetime = q.start)
                      => Count(q.events, written[i]) > 0

----------------------------------------------------------------------------
(* C20 *)

\* two runs have ended that read the same store at the same time of the clock
SameSnapshotSameNow ==
    /\ pc = "done"
    /\ first_run.ran
    /\ first_run.db = db
    /\ first_run.tableExists = tableExists
    /\ first_run.now = now
    /\ CleanRun(first_run.db, first_run.event_types, first_run.queried)
    /\ CleanRun(db, event_types, queried)

----------------------------------------------------------------------------
(* C21 *)

\* the event_type values that occur in at least one stored row
StoredTypes == {db[i].event_type : i \in 1..Len(db)}

\* C21: a call of get_unique_event_types that could read the store returns
\* exactly the event_type values that occur in at least one stored row, each
\* value once, whatever the rows are.
C21_UniqueTypes ==
    (ret.op = "types" /\ ret.fault = "none") =>
        /\ {ret.types[k] : k \in 1..Len(ret.types)} = StoredTypes
        /\ \A j, k \in 1..Len(ret.types) :
              ret.types[j] = ret.types[k] => j = k

\* the call over two stored rows of one category
C21_Witness ==
    /\ ret.op = "types"
    /\ ret.fault = "none"
    /\ Len(db) = 2
    /\ db[1].event_type = db[2].event_type
    /\ Len(ret.types) = 1

----------------------------------------------------------------------------
(* C22 *)

\* a stored row of that name with the fields the coordinator configures
ConfiguredRow(name, event_type, zip_code, urls) ==
    \E i \in 1..Len(db) :
        /\ db[i].name = name
        /\ db[i].event_type = event_type
        /\ db[i].zip_code = zip_code
        /\ db[i].url \in urls

\* the url values a row of the model can hold
AnyUrl == {db[i].url : i \in 1..Len(db)}

\* C22: when scrape_events has ended by its last line, every dated item the
\* Township feed served is a stored row with event_type GOVERNMENT and
\* zip_code 44023, every Library item one with LIBRARY and 44023, every
\* School item whose name holds a keyword one with SCHOOL and 44023, every
\* Sports item whose name holds "vs" one with SPORTS, 44023 and the athletics
\* url, under the name the feed gave the item.
C22_PostProcessing ==
    ipc = "done" =>
        \A x \in served :
              /\ x.source = "township" =>
                     ConfiguredRow(x.name, "GOVERNMENT", "44023", AnyUrl)
              /\ x.source = "library" =>
                     ConfiguredRow(x.name, "LIBRARY", "44023", AnyUrl)
              /\ (x.source = "schools"
                      /\ any_word_in(lower(x.name), SchoolFilters)) =>
                     ConfiguredRow(x.name, "SCHOOL", "44023", AnyUrl)
              /\ (x.source = "sports" /\ any_word_in(lower(x.name), {"vs"})) =>
                     ConfiguredRow(x.name, "SPORTS", "44023",
                                   {"https://www.kenstonathletics.com/"})

----------------------------------------------------------------------------
(* C23 *)

\* the dated items the feed of a source served
ServedBy(source) == {x \in served : x.source = source}

\* C23: when scrape_ics has returned for the Township feed, the feed was
\* fetched and parsed and each of its VEVENT components has a DTSTART and a
\* SUMMARY, the list scrape_ics returned holds exactly one Event for each
\* component, under the component's name.
C23_OneEventPerVEvent ==
    (ipc = "library" /\ "township" \notin failed /\ "township" \notin startless) =>
        /\ Len(scraped_events) = Cardinality(ServedBy("township"))
        /\ \A x \in ServedBy("township") :
              \E k \in 1..Len(scraped_events) : scraped_events[k].name = x.name

----------------------------------------------------------------------------
(* C24 *)

\* C24: when scrape_json has returned for a feed that was fetched and decoded
\* and of whose items one has no usable StartDate, every other item of the
\* feed, each with a StartDate, is in the list as a COMMUNITY event under its
\* name.
C24_OnlyBadItemSkipped ==
    (ipc = "mapleleaf" /\ "cvcc" \notin failed /\ "cvcc" \in startless) =>
        \A x \in ServedBy("cvcc") :
            \E k \in 1..Len(scraped_events) :
                /\ scraped_events[k].name = x.name
                /\ scraped_events[k].event_type = "COMMUNITY"

----------------------------------------------------------------------------
(* C25 *)

\* the heading that opens the section place i of the document stands in
HeadingBefore(i) ==
    {j \in 1..(i - 1) :
        /\ out_html[j].tag = "h1"
        /\ \A m \in (j + 1)..(i - 1) : out_html[m].tag # "h1"}

\* the fragments of the document that print event e under e's category
FragmentsOf(e) ==
    {i \in 1..Len(out_html) :
        /\ out_html[i].tag = "div"
        /\ out_html[i].type = e.event_type
        /\ out_html[i].frag = html(e)}

\* the stored events that print as e does
PrintedAs(e) ==
    {m \in 1..Len(written) :
        /\ written[m].event_type = e.event_type
        /\ html(written[m]) = html(e)}

\* event e starts inside the window of query k
StartsInWindow(e, k) ==
    /\ Instant(queried[k].start) <= Instant(e.start_datetime)
    /\ Instant(e.start_datetime) <= Instant(queried[k].end)

----------------------------------------------------------------------------
(* C26 *)

\* the call of write_to_db that has just returned met a failure: the
\* connection, a statement, or a start_datetime with no isoformat method
WriteFailed(r) ==
    /\ r.op = "write"
    /\ \/ r.fault # "none"
       \/ ~has_isoformat(r.events[1].start_datetime)

\* C26: a call of write_to_db that fails leaves the rows of the events table
\* exactly as they were before the call: no partial row, no extra row.
C26_FailedWriteLeavesRows ==
    [][(ret.op = "none" /\ WriteFailed(ret')) => db' = db]_vars

\* a write that failed on a start with no isoformat method, on a table that
\* holds a row
C26_Witness ==
    /\ WriteFailed(ret)
    /\ ret.fault = "none"
    /\ Len(db) >= 1

----------------------------------------------------------------------------
(* C27 *)

\* the document holds no section heading and no event fragment
NoSections(doc) == \A i \in 1..Len(doc) : doc[i].tag \notin {"h1", "div"}

\* the run could read nothing: there is no events table, or the read of the
\* categories returned nothing although rows are stored, or every query of
\* a category failed
NothingRead ==
    \/ ~tableExists
    \/ (db # << >> /\ event_types = << >>)
    \/ \A k \in 1..Len(queried) : queried[k].fault # "none"

\* C27: a digest run over a store with no events table, or one it cannot
\* read, gets the empty list from get_unique_event_types and from every
\* get_events_by_date_and_type call, and its document, the one it writes to
\* output.html, is "<html></html>": no section heading, no event fragment.
C27_EmptyDigest ==
    /\ (pc # "idle" /\ ~tableExists) => (event_types = << >> /\ queried = << >>)
    /\ \A k \in 1..Len(queried) :
          queried[k].fault # "none" => queried[k].events = << >>
    /\ (pc # "idle" /\ NothingRead) => NoSections(out_html)
    /\ (pc = "done" /\ NothingRead) =>
          /\ out_html = <<Token("html", "", NoFrag), Token("/html", "", NoFrag)>>
          /\ output_file \in {out_html, NoFile}

\* a finished run whose one query failed although an event of the category
\* is stored inside the window, and whose empty document was written
C27_Witness ==
    /\ pc = "done"
    /\ Len(queried) = 1
    /\ queried[1].fault # "none"
    /\ StoredInWindow(queried[1].event_type, 1)
    /\ NoSections(out_html)
    /\ output_file = out_html

====
